---- MODULE Spec2Model ----
(***************************************************************************)
(* Bulk export of an Airtable Enterprise account into SQLite.              *)
(*                                                                         *)
(* The module models base_data.js (the base scan and the reconciliation   *)
(* delete) and the crawl of metadata.js as driven by the index entry       *)
(* point.  One action is one turn of the Node event loop: the settling of  *)
(* one remote call or of one sqlite statement, together with every         *)
(* promise continuation that runs before the loop takes the next event.    *)
(* Every reachable state is therefore also a state in which the process    *)
(* may be interrupted: the store holds exactly what the variables bases    *)
(* and data hold.                                                          *)
(***************************************************************************)
EXTENDS Integers, Sequences, FiniteSets, TLC

\* ------------------------------------------------------------------ bounds

NumBases == 3
NumTables == 2
NumRecords == 1
\* config.enterpriseAccountId
NumAccounts == 1
NumWorkspaces == 1
\* Bases of the enterprise account, the ones the crawl can discover.
NumCrawled == 2
\* Executions of one remote operation whose answer is fixed in advance.
NumAnswers == 6
\* Fields of one table in the attachment run.
NumFields == 2

Min(a, b) == IF a <= b THEN a ELSE b

BaseIds == 1..NumBases
TableIds == 1..NumTables
RecordIds == 1..NumRecords
AccountIds == 1..NumAccounts
WorkspaceIds == 1..NumWorkspaces
CrawledBaseIds == 1..Min(NumCrawled, NumBases)

\* ------------------------------------------------------- program constants

\* Promise.map(bases, ..., {concurrency: 2})
BaseConcurrency == 2
\* Promise.map(tables, ..., {concurrency: 5})
TableConcurrency == 5
\* Promise.map(workspaces, ..., {concurrency: 10}) and Promise.map(queue, ...)
CrawlConcurrency == 10
\* err.code === 'ETIMEDOUT' && retry_count < 5
MaxRetries == 5

\* The sqlite3 connections are opened with the library's defaults and no
\* PRAGMA foreign_keys is ever issued: SQLite then parses the FOREIGN KEY
\* clause of createTables but does not enforce it.
ForeignKeysEnforced == FALSE

\* The scan identifier of the run, an identifier left by an earlier run, and
\* SQL NULL.
S == "S"
Old == "old"
NULL == "NULL"

\* new Date().toISOString() of this run, and a scan_time stored earlier.
Now == "now"
Earlier == "earlier"

VARIABLES
  bases,            \* table bases: id -> [scan_id, scan_time]
  data,             \* table data: record_id (PRIMARY KEY) -> row
  delete_data,      \* argument delete_data of base_data.run
  phase,            \* position of base_data.run
  outer,            \* the Promise.map over the selected bases
  bqueue,           \* bases the outer Promise.map has not started yet
  bpc,              \* position of the mapper of each base
  inner,            \* per base: the Promise.map over its tables
  tqueue,           \* per base: tables the inner Promise.map has not started
  tpc,              \* per base and table: position of the table's mapper
  pending,          \* per base and table: records whose INSERT is in flight
  UNSCANNED_BASES,  \* the skip list
  to_delete,        \* deleteData: the ids its SELECT returned
  calls,            \* history: base_data.run's remote calls, <<kind, base>>
  bases0,           \* history: table bases as base_data.run's SELECT saw it
  data0,            \* history: table data at that moment
  workspaces,       \* table workspaces: the ids stored
  cpc,              \* position of metadata.run
  acct,             \* metadata.run: index of the enterprise account at hand
  queue,            \* metadata.run: the (workspace, base) pairs found
  cflight,          \* metadata.run: the mappers of its current Promise.map
  cqueue,           \* metadata.run: the items that Promise.map has not started
  inserts,          \* INSERT statements issued by metadata.run, not yet run
  bases_pre,        \* history: table bases when the script was started
  site,             \* one remote call: the call site that issued it
  remote,           \* what the remote side answers to its 1st, 2nd, ... execution
  request,          \* the promise the call site created: pending, or its settlement
  retry_count,      \* requestWithRetry: argument retry_count of the invocation at hand
  rpc,              \* position of the call site's await
  attempts,         \* history: how often the promise was awaited
  result            \* what the call site's await yielded: a value or the error thrown

crawlvars == <<workspaces, cpc, acct, queue, cflight, cqueue, inserts, bases_pre>>

callvars == <<site, remote, request, retry_count, rpc, attempts, result>>

vars == <<bases, data, delete_data, phase, outer, bqueue, bpc, inner, tqueue,
          tpc, pending, UNSCANNED_BASES, to_delete, calls, bases0, data0,
          crawlvars, callvars>>

\* ----------------------------------------------------------------- helpers

RECURSIVE SetToSeq(_)
\* The rows of a SELECT without ORDER BY, in rowid order.
SetToSeq(s) ==
  IF s = {} THEN <<>>
  ELSE LET m == CHOOSE x \in s : \A y \in s : x <= y
       IN <<m>> \o SetToSeq(s \ {m})

Front(q) == SubSeq(q, 1, Len(q) - 1)

Range(q) == {q[i] : i \in 1..Len(q)}

\* Upstream content of a record: rec.fields and rec._rawJson.createdTime.
Fields(r) == <<"fields", r>>
CreatedTime(r) == <<"createdTime", r>>

\* JSON.stringify(rec.fields)
Stringify(f) == <<"json", f>>

\* Mutant of StaleTag: the IS NULL disjunct is forgotten.
StaleTag_NoNullTest(tag, scan_id) == tag # NULL /\ tag # scan_id

\* WHERE scan_id != ? OR scan_id IS NULL (a comparison with NULL is not true
\* in SQL, hence the second disjunct).
StaleTag(tag, scan_id) == (tag # NULL /\ tag # scan_id) \/ tag = NULL

\* INSERT OR REPLACE INTO data (base_id, table_id, record_id, created_time,
\* data, scan_id) VALUES ($base_id, $table_id, $record_id, $data,
\* $created_time, $scan_id): the values are bound by position in the column
\* list, so column created_time receives $data and column data receives
\* $created_time.
RecordRow(b, t, r, scan_id) ==
  [base_id |-> b, table_id |-> t,
   created_time |-> Stringify(Fields(r)),
   data |-> CreatedTime(r),
   scan_id |-> scan_id]

\* The row with primary key k is replaced or created.
Upsert(table, k, row) ==
  [x \in DOMAIN table \cup {k} |-> IF x = k THEN row ELSE table[x]]

Restrict(table, keys) == [x \in keys |-> table[x]]

\* Mutant of DeleteRequested: the flag is not looked at.
DeleteRequested_Always(flag) == TRUE

\* if (delete_data !== true) return;
DeleteRequested(flag) == flag = TRUE

AfterScan == IF DeleteRequested(delete_data) THEN "del_bases_select" ELSE "resolved"

\* Positions of a base's mapper in which it still has work to do.
ActiveBase == {"grant", "tables", "fanout", "revoke", "update", "update_warned"}
\* Positions of a table's mapper in which it still has work to do.
ActiveTable == {"fetch", "write"}

\* A table of base b has a fetch or a record write in flight.
TableInFlight(b, t) == tpc[b][t] \in ActiveTable \/ pending[b][t] # {}

\* ------------------------------------------------- promise continuations

\* The mapper of base b resolved (return 0 / return / fall off the end).
\* Bluebird's Promise.map then starts the base it queued last, or resolves
\* when no mapper is left; once it has rejected it ignores its mappers.
MapperReturns(b, how, skipped, calls1) ==
  /\ UNSCANNED_BASES' = IF skipped THEN Append(UNSCANNED_BASES, b) ELSE UNSCANNED_BASES
  /\ IF outer # "pending"
     THEN /\ bpc' = [bpc EXCEPT ![b] = how]
          /\ calls' = calls1
          /\ UNCHANGED <<bqueue, outer, phase>>
     ELSE IF bqueue # <<>>
     THEN LET n == bqueue[Len(bqueue)]
          IN /\ bpc' = [bpc EXCEPT ![b] = how, ![n] = "grant"]
             /\ bqueue' = Front(bqueue)
             /\ calls' = calls1 \cup {<<"grant", n>>}
             /\ UNCHANGED <<outer, phase>>
     ELSE /\ bpc' = [bpc EXCEPT ![b] = how]
          /\ calls' = calls1
          /\ bqueue' = bqueue
          /\ IF \A c \in BaseIds \ {b} : bpc[c] \notin ActiveBase
             THEN outer' = "resolved" /\ phase' = AfterScan
             ELSE UNCHANGED <<outer, phase>>

\* The mapper of base b rejected (throw err, or a TypeError raised by
\* err.response.status when the error carries no response).  The outer
\* Promise.map rejects, so base_data.run rejects; mappers already started
\* keep running, queued bases are never started.
MapperThrows(b, how) ==
  /\ bpc' = [bpc EXCEPT ![b] = how]
  /\ outer' = IF outer = "pending" THEN "rejected" ELSE outer
  /\ phase' = IF outer = "pending" THEN "rejected" ELSE phase
  /\ UNCHANGED <<bqueue, UNSCANNED_BASES, calls>>

\* Mutant of AllTablesResolved: the fan-out is left at the first table that
\* resolves.
AllTablesResolved_First(b, t) == TRUE

\* await Promise.map(tables, ...) goes on only when the mapper of every
\* table has resolved: t is resolving now, no other table is still at work.
AllTablesResolved(b, t) == \A u \in TableIds \ {t} : tpc[b][u] \notin ActiveTable

\* The mapper of table t of base b resolved.  The inner Promise.map starts
\* the table it queued last, or resolves when no mapper is left, and the
\* base's mapper then issues the revoke; once it has rejected it ignores its
\* mappers.
TableReturns(b, t) ==
  IF inner[b] # "pending"
  THEN /\ tpc' = [tpc EXCEPT ![b][t] = "done"]
       /\ UNCHANGED <<tqueue, inner, bpc, bqueue, outer, phase, UNSCANNED_BASES, calls>>
  ELSE IF tqueue[b] # <<>>
  THEN LET n == tqueue[b][Len(tqueue[b])]
       IN /\ tpc' = [tpc EXCEPT ![b][t] = "done", ![b][n] = "fetch"]
          /\ tqueue' = [tqueue EXCEPT ![b] = Front(@)]
          /\ calls' = calls \cup {<<"fetch", b>>}
          /\ UNCHANGED <<inner, bpc, bqueue, outer, phase, UNSCANNED_BASES>>
  ELSE /\ tpc' = [tpc EXCEPT ![b][t] = "done"]
       /\ tqueue' = tqueue
       /\ IF AllTablesResolved(b, t)
          THEN \* all tables resolved: reduce, new Date(), admin.delete(...)
               /\ inner' = [inner EXCEPT ![b] = "resolved"]
               /\ bpc' = [bpc EXCEPT ![b] = "revoke"]
               /\ calls' = calls \cup {<<"revoke", b>>}
               /\ UNCHANGED <<bqueue, outer, phase, UNSCANNED_BASES>>
          ELSE UNCHANGED <<inner, bpc, bqueue, outer, phase, UNSCANNED_BASES, calls>>

\* Mutant of TableThrows: the catch returns without pushing the base on the
\* skip list.
TableThrows_NoPush(b, t) ==
  /\ tpc' = [tpc EXCEPT ![b][t] = "failed"]
  /\ tqueue' = tqueue
  /\ IF inner[b] = "pending"
     THEN /\ inner' = [inner EXCEPT ![b] = "rejected"]
          /\ MapperReturns(b, "ret_skipped", FALSE, calls)
     ELSE UNCHANGED <<inner, bpc, bqueue, outer, phase, UNSCANNED_BASES, calls>>

\* The mapper of table t of base b rejected.  The inner Promise.map rejects
\* at once: the catch pushes the base on the skip list and the base's mapper
\* returns, while the other tables' mappers keep running.
TableThrows(b, t) ==
  /\ tpc' = [tpc EXCEPT ![b][t] = "failed"]
  /\ tqueue' = tqueue
  /\ IF inner[b] = "pending"
     THEN /\ inner' = [inner EXCEPT ![b] = "rejected"]
          /\ MapperReturns(b, "ret_skipped", TRUE, calls)
     ELSE UNCHANGED <<inner, bpc, bqueue, outer, phase, UNSCANNED_BASES, calls>>

\* ------------------------------------------------------------------- Init

\* A row of table bases bearing the given tag: scan_time is set together with
\* scan_id and is NULL until the base has been scanned once.
BaseRow(tag) == [scan_id |-> tag, scan_time |-> IF tag = NULL THEN NULL ELSE Earlier]

\* Table bases as earlier runs left it: bases 1..k were already marked with
\* the identifier of this run (k = 0 for a fresh identifier), the others
\* carry an older identifier, except the last, which was never scanned.
InitBases ==
  {[b \in BaseIds |-> BaseRow(IF b <= k THEN S ELSE IF b = NumBases THEN NULL ELSE Old)]
     : k \in 0..NumBases}

\* Table data as earlier runs of this program left it: each record absent, or
\* stored under some base with the tag of this run or of an earlier one.
InitData == UNION {[rs -> BaseIds \X {S, Old}] : rs \in SUBSET RecordIds}

InitStore ==
  /\ bases \in InitBases
  /\ \E d \in InitData :
       data = [r \in DOMAIN d |-> RecordRow(d[r][1], 1, r, d[r][2])]

InitIdle ==
  /\ outer = "none"
  /\ bqueue = <<>>
  /\ bpc = [b \in BaseIds |-> "idle"]
  /\ inner = [b \in BaseIds |-> "none"]
  /\ tqueue = [b \in BaseIds |-> <<>>]
  /\ tpc = [b \in BaseIds |-> [t \in TableIds |-> "none"]]
  /\ pending = [b \in BaseIds |-> [t \in TableIds |-> {}]]
  /\ UNSCANNED_BASES = <<>>
  /\ to_delete = {}
  /\ calls = {}
  /\ bases0 = bases
  /\ data0 = data
  /\ workspaces = {}
  /\ queue = <<>>
  /\ cflight = {}
  /\ cqueue = <<>>
  /\ inserts = {}
  /\ bases_pre = bases

\* No single remote call is followed attempt by attempt: the actions of the
\* scan and of the crawl take a call with the outcome its await yields.
InitNoCall ==
  /\ site = "none"
  /\ remote = <<>>
  /\ request = "none"
  /\ retry_count = 0
  /\ rpc = "off"
  /\ attempts = 0
  /\ result = "none"

\* base_data.js run as a script: run(db, scan_id, delete_data) on the store
\* an earlier run left.
Init ==
  /\ InitStore
  /\ delete_data \in BOOLEAN
  /\ phase = "select"
  /\ cpc = "off"
  /\ acct = 0
  /\ InitIdle
  /\ InitNoCall

\* ---------------------------------------------------------------- actions

\* The bases base_data.run selects for scanning.
Selected(table, scan_id) == {b \in DOMAIN table : StaleTag(table[b].scan_id, scan_id)}

\* db.all('SELECT * FROM bases WHERE scan_id !=? OR scan_id IS NULL') calls
\* back; Promise.map starts the first BaseConcurrency mappers, each of which
\* issues its grant request, and queues the rest.
SelectSettles(ok) ==
  /\ UNCHANGED <<crawlvars, callvars>>
  /\ phase = "select"
  /\ bases0' = bases
  /\ data0' = data
  /\ IF ~ok
     THEN /\ phase' = "rejected"
          /\ UNCHANGED <<outer, bqueue, bpc, calls>>
     ELSE LET rows == SetToSeq(Selected(bases, S))
              k == Min(Len(rows), BaseConcurrency)
              started == {rows[i] : i \in 1..k}
          IN /\ bpc' = [b \in BaseIds |->
                          IF b \in started THEN "grant"
                          ELSE IF b \in Range(rows) THEN "queued" ELSE "idle"]
             /\ bqueue' = SubSeq(rows, k + 1, Len(rows))
             /\ calls' = calls \cup {<<"grant", b>> : b \in started}
             /\ outer' = IF rows = <<>> THEN "resolved" ELSE "pending"
             /\ phase' = IF rows = <<>> THEN AfterScan ELSE "scanning"
  /\ UNCHANGED <<bases, data, delete_data, inner, tqueue, tpc, pending,
                 UNSCANNED_BASES, to_delete>>

GrantResults == {"ok", "not_found", "forbidden", "timeout", "error"}

\* Mutant of GrantSettles: the forbidden branch pushes the base on the skip
\* list and falls through to the table list instead of returning.
GrantSettles_NoReturn(b, res) ==
  /\ UNCHANGED <<crawlvars, callvars>>
  /\ bpc[b] = "grant"
  /\ CASE res \in {"ok", "forbidden"} ->
            /\ bpc' = [bpc EXCEPT ![b] = "tables"]
            /\ calls' = calls \cup {<<"tables", b>>}
            /\ UNSCANNED_BASES' = IF res = "forbidden" THEN Append(UNSCANNED_BASES, b)
                                                        ELSE UNSCANNED_BASES
            /\ UNCHANGED <<bqueue, outer, phase>>
       [] res = "not_found" -> MapperReturns(b, "ret_not_found", FALSE, calls)
       [] OTHER -> MapperThrows(b, "threw_grant")
  /\ UNCHANGED <<bases, data, delete_data, inner, tqueue, tpc, pending,
                 to_delete, bases0, data0>>

\* Mutant of GrantSettles: the not-found branch pushes the base on the skip
\* list before it returns.
GrantSettles_NotFoundPushed(b, res) ==
  /\ UNCHANGED <<crawlvars, callvars>>
  /\ bpc[b] = "grant"
  /\ CASE res = "ok" ->
            /\ bpc' = [bpc EXCEPT ![b] = "tables"]
            /\ calls' = calls \cup {<<"tables", b>>}
            /\ UNCHANGED <<bqueue, outer, phase, UNSCANNED_BASES>>
       [] res = "not_found" -> MapperReturns(b, "ret_not_found", TRUE, calls)
       [] res = "forbidden" -> MapperReturns(b, "ret_forbidden", TRUE, calls)
       [] OTHER -> MapperThrows(b, "threw_grant")
  /\ UNCHANGED <<bases, data, delete_data, inner, tqueue, tpc, pending,
                 to_delete, bases0, data0>>

\* Mutant of GrantSettles: the forbidden branch returns without pushing the
\* base on the skip list.
GrantSettles_ForbiddenNotPushed(b, res) ==
  /\ UNCHANGED <<crawlvars, callvars>>
  /\ bpc[b] = "grant"
  /\ CASE res = "ok" ->
            /\ bpc' = [bpc EXCEPT ![b] = "tables"]
            /\ calls' = calls \cup {<<"tables", b>>}
            /\ UNCHANGED <<bqueue, outer, phase, UNSCANNED_BASES>>
       [] res = "not_found" -> MapperReturns(b, "ret_not_found", FALSE, calls)
       [] res = "forbidden" -> MapperReturns(b, "ret_forbidden", FALSE, calls)
       [] OTHER -> MapperThrows(b, "threw_grant")
  /\ UNCHANGED <<bases, data, delete_data, inner, tqueue, tpc, pending,
                 to_delete, bases0, data0>>

\* requestWithRetry(admin.post(`meta/bases/${base_id}/collaborators`)) settles.
GrantSettles(b, res) ==
  /\ UNCHANGED <<crawlvars, callvars>>
  /\ bpc[b] = "grant"
  /\ CASE res = "ok" ->
            /\ bpc' = [bpc EXCEPT ![b] = "tables"]
            /\ calls' = calls \cup {<<"tables", b>>}
            /\ UNCHANGED <<bqueue, outer, phase, UNSCANNED_BASES>>
       [] res = "not_found" -> MapperReturns(b, "ret_not_found", FALSE, calls)
       [] res = "forbidden" -> MapperReturns(b, "ret_forbidden", TRUE, calls)
       [] OTHER -> MapperThrows(b, "threw_grant")
  /\ UNCHANGED <<bases, data, delete_data, inner, tqueue, tpc, pending,
                 to_delete, bases0, data0>>

\* Mutant of TablesSettles: the forbidden branch pushes the base on the skip
\* list before it returns.
TablesSettles_ForbiddenPushed(b, res, n) ==
  /\ UNCHANGED <<crawlvars, callvars>>
  /\ bpc[b] = "tables"
  /\ CASE res = "ok" ->
            LET k == Min(n, TableConcurrency)
            IN /\ bpc' = [bpc EXCEPT ![b] = "fanout"]
               /\ inner' = [inner EXCEPT ![b] = "pending"]
               /\ tpc' = [tpc EXCEPT ![b] =
                            [t \in TableIds |->
                               IF t <= k THEN "fetch"
                               ELSE IF t <= n THEN "queued" ELSE "none"]]
               /\ tqueue' = [tqueue EXCEPT ![b] = [i \in 1..(n - k) |-> k + i]]
               /\ calls' = calls \cup {<<"fetch", b>>}
               /\ UNCHANGED <<bqueue, outer, phase, UNSCANNED_BASES>>
       [] res = "forbidden" ->
            /\ MapperReturns(b, "ret_no_metadata", TRUE, calls)
            /\ UNCHANGED <<inner, tpc, tqueue>>
       [] OTHER ->
            /\ MapperThrows(b, "threw_tables")
            /\ UNCHANGED <<inner, tpc, tqueue>>
  /\ UNCHANGED <<bases, data, delete_data, pending, to_delete, bases0, data0>>

\* requestWithRetry(admin.get(`meta/bases/${base_id}/tables`)) settles; on
\* success with tables 1..n the inner Promise.map starts the first
\* TableConcurrency mappers, each of which issues base(t.name).select().all().
TablesSettles(b, res, n) ==
  /\ UNCHANGED <<crawlvars, callvars>>
  /\ bpc[b] = "tables"
  /\ CASE res = "ok" ->
            LET k == Min(n, TableConcurrency)
            IN /\ bpc' = [bpc EXCEPT ![b] = "fanout"]
               /\ inner' = [inner EXCEPT ![b] = "pending"]
               /\ tpc' = [tpc EXCEPT ![b] =
                            [t \in TableIds |->
                               IF t <= k THEN "fetch"
                               ELSE IF t <= n THEN "queued" ELSE "none"]]
               /\ tqueue' = [tqueue EXCEPT ![b] = [i \in 1..(n - k) |-> k + i]]
               /\ calls' = calls \cup {<<"fetch", b>>}
               /\ UNCHANGED <<bqueue, outer, phase, UNSCANNED_BASES>>
       [] res = "forbidden" ->
            /\ MapperReturns(b, "ret_no_metadata", FALSE, calls)
            /\ UNCHANGED <<inner, tpc, tqueue>>
       [] OTHER ->
            /\ MapperThrows(b, "threw_tables")
            /\ UNCHANGED <<inner, tpc, tqueue>>
  /\ UNCHANGED <<bases, data, delete_data, pending, to_delete, bases0, data0>>

\* requestWithRetry(base(t.name).select().all()) settles; on success every
\* record's INSERT OR REPLACE is issued at once.
FetchSettles(b, t, ok, recs) ==
  /\ UNCHANGED <<crawlvars, callvars>>
  /\ tpc[b][t] = "fetch"
  /\ IF ~ok THEN TableThrows(b, t) /\ pending' = pending
     ELSE IF recs = {} THEN TableReturns(b, t) /\ pending' = pending
     ELSE /\ tpc' = [tpc EXCEPT ![b][t] = "write"]
          /\ pending' = [pending EXCEPT ![b][t] = recs]
          /\ UNCHANGED <<tqueue, inner, bpc, bqueue, outer, phase, UNSCANNED_BASES, calls>>
  /\ UNCHANGED <<bases, data, delete_data, to_delete, bases0, data0>>

\* The INSERT OR REPLACE of record r of table t of base b calls back.
\* Promise.all(promises) resolves with the last write and rejects with the
\* first failed one; the other writes of the table go on either way.
WriteSettles(b, t, r, ok) ==
  /\ UNCHANGED <<crawlvars, callvars>>
  /\ r \in pending[b][t]
  /\ ok => (~ForeignKeysEnforced \/ b \in DOMAIN bases)
  /\ pending' = [pending EXCEPT ![b][t] = @ \ {r}]
  /\ data' = IF ok THEN Upsert(data, r, RecordRow(b, t, r, S)) ELSE data
  /\ IF tpc[b][t] # "write"
     THEN UNCHANGED <<tpc, tqueue, inner, bpc, bqueue, outer, phase, UNSCANNED_BASES, calls>>
     ELSE IF ~ok THEN TableThrows(b, t)
     ELSE IF pending[b][t] = {r} THEN TableReturns(b, t)
     ELSE UNCHANGED <<tpc, tqueue, inner, bpc, bqueue, outer, phase, UNSCANNED_BASES, calls>>
  /\ UNCHANGED <<bases, delete_data, to_delete, bases0, data0>>

RevokeResults == {"ok", "forbidden", "timeout", "error"}

\* Mutant of RevokeSettles: on a 403 the base is pushed on the skip list
\* before the UPDATE is issued.
RevokeSettles_ForbiddenPushed(b, res) ==
  /\ UNCHANGED <<crawlvars, callvars>>
  /\ bpc[b] = "revoke"
  /\ IF res \in {"ok", "forbidden"}
     THEN /\ bpc' = [bpc EXCEPT ![b] = IF res = "forbidden" THEN "update_warned" ELSE "update"]
          /\ UNSCANNED_BASES' = IF res = "forbidden" THEN Append(UNSCANNED_BASES, b)
                                                      ELSE UNSCANNED_BASES
          /\ UNCHANGED <<bqueue, outer, phase, calls>>
     ELSE MapperThrows(b, "threw_revoke")
  /\ UNCHANGED <<bases, data, delete_data, inner, tqueue, tpc, pending,
                 to_delete, bases0, data0>>

\* requestWithRetry(admin.delete(`meta/bases/${base_id}/collaborators/...`))
\* settles; a 403 is tolerated with a warning, and on either answer the
\* UPDATE of the base row is issued.
RevokeSettles(b, res) ==
  /\ UNCHANGED <<crawlvars, callvars>>
  /\ bpc[b] = "revoke"
  /\ IF res \in {"ok", "forbidden"}
     THEN /\ bpc' = [bpc EXCEPT ![b] = IF res = "forbidden" THEN "update_warned" ELSE "update"]
          /\ UNCHANGED <<bqueue, outer, phase, UNSCANNED_BASES, calls>>
     ELSE MapperThrows(b, "threw_revoke")
  /\ UNCHANGED <<bases, data, delete_data, inner, tqueue, tpc, pending,
                 to_delete, bases0, data0>>

\* Mutant of MarkScanned: the UPDATE sets scan_time only.
MarkScanned_TimeOnly(table, b, scan_id) ==
  IF b \in DOMAIN table
  THEN [table EXCEPT ![b] = [scan_id |-> @.scan_id, scan_time |-> Now]]
  ELSE table

\* UPDATE bases SET scan_time=?, scan_id=? WHERE id=?
MarkScanned(table, b, scan_id) ==
  IF b \in DOMAIN table
  THEN [table EXCEPT ![b] = [scan_id |-> scan_id, scan_time |-> Now]]
  ELSE table

\* The UPDATE of the base row calls back and the base's mapper ends.
UpdateSettles(b, ok) ==
  /\ UNCHANGED <<crawlvars, callvars>>
  /\ bpc[b] \in {"update", "update_warned"}
  /\ IF ok
     THEN /\ bases' = MarkScanned(bases, b, S)
          /\ MapperReturns(b, "ret_done", FALSE, calls)
     ELSE /\ bases' = bases
          /\ MapperThrows(b, "threw_update")
  /\ UNCHANGED <<data, delete_data, inner, tqueue, tpc, pending, to_delete,
                 bases0, data0>>

\* deleteData: SELECT ${primary_field} FROM ${table_name} WHERE scan_id !=?
\* OR scan_id IS NULL calls back and the DELETE is issued.
DeleteSelectSettles(ok) ==
  /\ UNCHANGED <<crawlvars, callvars>>
  /\ phase \in {"del_bases_select", "del_data_select"}
  /\ IF ~ok THEN phase' = "rejected" /\ to_delete' = to_delete
     ELSE IF phase = "del_bases_select"
     THEN /\ to_delete' = Selected(bases, S)
          /\ phase' = "del_bases_delete"
     ELSE /\ to_delete' = Selected(data, S)
          /\ phase' = "del_data_delete"
  /\ UNCHANGED <<bases, data, delete_data, outer, bqueue, bpc, inner, tqueue,
                 tpc, pending, UNSCANNED_BASES, calls, bases0, data0>>

\* DELETE FROM data: the rows whose record_id is listed.
DeleteRecords(table, ids) == Restrict(table, DOMAIN table \ ids)

\* DELETE FROM bases: the rows whose id is listed, and with foreign keys
\* enforced the data rows that reference them (ON DELETE CASCADE).
Cascade(table, ids) ==
  IF ForeignKeysEnforced
  THEN Restrict(table, {r \in DOMAIN table : table[r].base_id \notin ids})
  ELSE table

\* deleteData: DELETE FROM ${table_name} WHERE ${primary_field} IN (...)
\* calls back; run goes on to the data table, then returns.
DeleteSettles(ok) ==
  /\ UNCHANGED <<crawlvars, callvars>>
  /\ phase \in {"del_bases_delete", "del_data_delete"}
  /\ IF ~ok THEN phase' = "rejected" /\ UNCHANGED <<bases, data>>
     ELSE IF phase = "del_bases_delete"
     THEN /\ bases' = Restrict(bases, DOMAIN bases \ to_delete)
          /\ data' = Cascade(data, to_delete)
          /\ phase' = "del_data_select"
     ELSE /\ data' = DeleteRecords(data, to_delete)
          /\ bases' = bases
          /\ phase' = "resolved"
  /\ UNCHANGED <<delete_data, outer, bqueue, bpc, inner, tqueue, tpc, pending,
                 UNSCANNED_BASES, to_delete, calls, bases0, data0>>

Next ==
  \/ \E ok \in BOOLEAN : SelectSettles(ok)
  \/ \E b \in BaseIds, res \in GrantResults : GrantSettles(b, res)
  \/ \E b \in BaseIds, res \in {"ok", "forbidden", "timeout", "error"}, n \in TableIds :
       TablesSettles(b, res, n)
  \/ \E b \in BaseIds, t \in TableIds, ok \in BOOLEAN, recs \in SUBSET RecordIds :
       FetchSettles(b, t, ok, recs)
  \/ \E b \in BaseIds, t \in TableIds, r \in RecordIds, ok \in BOOLEAN :
       WriteSettles(b, t, r, ok)
  \/ \E b \in BaseIds, res \in RevokeResults : RevokeSettles(b, res)
  \/ \E b \in BaseIds, ok \in BOOLEAN : UpdateSettles(b, ok)
  \/ \E ok \in BOOLEAN : DeleteSelectSettles(ok)
  \/ \E ok \in BOOLEAN : DeleteSettles(ok)

Spec == Init /\ [][Next]_vars

\* ------------------------------------------- metadata.js and the entry point

\* Items of metadata.run's two Promise.map calls, and the INSERT statement
\* each of their mappers issues: a workspace, or a base of a workspace.
WorkspaceItem(w) == <<"ws", w, 0>>
BaseItem(w, b) == <<"base", w, b>>

\* INSERT OR REPLACE INTO bases (id, workspace_id, created_time, name): a row
\* with the same id is removed and the new row inserted; scan_time and
\* scan_id are not in the column list and take their default, NULL.
ReplaceBase(table, b) == Upsert(table, b, BaseRow(NULL))

\* Promise.map(items, ..., {concurrency: 10}) starts the first
\* CrawlConcurrency mappers, each of which issues its GET, and queues the rest.
MapStart(items) ==
  LET k == Min(Len(items), CrawlConcurrency)
  IN /\ cflight' = {items[i] : i \in 1..k}
     /\ cqueue' = SubSeq(items, k + 1, Len(items))

\* The body of the loop over config.enterpriseAccountId ended: the loop
\* issues the GET of the next account; after the last account metadata.run
\* resolves, and the entry point closes the connection, opens a new one and
\* calls base_data.run, which issues its SELECT.
AccountDone ==
  /\ cflight' = {}
  /\ cqueue' = <<>>
  /\ IF acct < NumAccounts
     THEN acct' = acct + 1 /\ cpc' = "account" /\ phase' = phase
     ELSE acct' = acct /\ cpc' = "resolved" /\ phase' = "select"

\* await Promise.map(queue, ...): the map over the (workspace, base) pairs q.
StartDetails(q) ==
  IF q = <<>> THEN AccountDone
  ELSE /\ cpc' = "details"
       /\ MapStart([i \in 1..Len(q) |-> BaseItem(q[i][1], q[i][2])])
       /\ UNCHANGED <<acct, phase>>

\* Mutant of CrawlThrows: the entry point goes on to base_data.run although
\* metadata.run rejected.
CrawlThrows_ThenScan(item, stage) ==
  /\ cflight' = cflight \ {item}
  /\ cpc' = IF cpc = stage THEN "rejected" ELSE cpc
  /\ phase' = IF cpc = stage THEN "select" ELSE phase
  /\ UNCHANGED <<acct, cqueue>>

\* A mapper of the current Promise.map rejected: the map rejects, so
\* metadata.run rejects and the entry point's catch logs the error; the
\* mappers already started keep running.
CrawlThrows(item, stage) ==
  /\ cflight' = cflight \ {item}
  /\ cpc' = IF cpc = stage THEN "rejected" ELSE cpc
  /\ phase' = IF cpc = stage THEN "rejected" ELSE phase
  /\ UNCHANGED <<acct, cqueue>>

\* admin.get(`meta/enterpriseAccounts/${enterpriseAccountId}`) settles with
\* the workspace ids ws; var queue = []; Promise.map(workspaces, ...).
AccountSettles(ok, ws) ==
  /\ cpc = "account"
  /\ IF ~ok
     THEN /\ cpc' = "rejected"
          /\ phase' = "rejected"
          /\ UNCHANGED <<acct, queue, cflight, cqueue>>
     ELSE /\ queue' = <<>>
          /\ IF ws = {}
             THEN StartDetails(<<>>)
             ELSE /\ cpc' = "workspaces"
                  /\ MapStart([i \in 1..Cardinality(ws) |-> WorkspaceItem(SetToSeq(ws)[i])])
                  /\ UNCHANGED <<acct, phase>>
  /\ UNCHANGED <<bases, data, delete_data, outer, bqueue, bpc, inner, tqueue,
                 tpc, pending, UNSCANNED_BASES, to_delete, calls, bases0, data0,
                 workspaces, inserts, bases_pre, callvars>>

\* admin.get(`meta/workspaces/${wid}?include=collaborators`) settles with the
\* base ids bs: the INSERT of the workspace row is issued and not awaited,
\* the pairs are pushed on the queue and the mapper resolves.
WorkspaceSettles(w, ok, bs) ==
  /\ WorkspaceItem(w) \in cflight
  /\ IF ~ok
     THEN /\ CrawlThrows(WorkspaceItem(w), "workspaces")
          /\ UNCHANGED <<queue, inserts>>
     ELSE LET q == queue \o [i \in 1..Cardinality(bs) |-> <<w, SetToSeq(bs)[i]>>]
          IN /\ inserts' = inserts \cup {WorkspaceItem(w)}
             /\ queue' = q
             /\ IF cpc # "workspaces"
                THEN /\ cflight' = cflight \ {WorkspaceItem(w)}
                     /\ UNCHANGED <<cpc, acct, cqueue, phase>>
                ELSE IF cqueue # <<>>
                THEN /\ cflight' = (cflight \ {WorkspaceItem(w)}) \cup {cqueue[Len(cqueue)]}
                     /\ cqueue' = Front(cqueue)
                     /\ UNCHANGED <<cpc, acct, phase>>
                ELSE IF cflight = {WorkspaceItem(w)}
                THEN StartDetails(q)
                ELSE /\ cflight' = cflight \ {WorkspaceItem(w)}
                     /\ UNCHANGED <<cpc, acct, cqueue, phase>>
  /\ UNCHANGED <<bases, data, delete_data, outer, bqueue, bpc, inner, tqueue,
                 tpc, pending, UNSCANNED_BASES, to_delete, calls, bases0, data0,
                 workspaces, bases_pre, callvars>>

\* admin.get(`meta/bases/${q.base_id}`) settles: the INSERT OR REPLACE of the
\* base row is issued; await db.run(...) awaits the Database object db.run
\* returns, not the statement, and the mapper resolves.
DetailSettles(w, b, ok) ==
  /\ BaseItem(w, b) \in cflight
  /\ IF ~ok
     THEN /\ CrawlThrows(BaseItem(w, b), "details")
          /\ UNCHANGED inserts
     ELSE /\ inserts' = inserts \cup {BaseItem(w, b)}
          /\ IF cpc # "details"
             THEN /\ cflight' = cflight \ {BaseItem(w, b)}
                  /\ UNCHANGED <<cpc, acct, cqueue, phase>>
             ELSE IF cqueue # <<>>
             THEN /\ cflight' = (cflight \ {BaseItem(w, b)}) \cup {cqueue[Len(cqueue)]}
                  /\ cqueue' = Front(cqueue)
                  /\ UNCHANGED <<cpc, acct, phase>>
             ELSE IF cflight = {BaseItem(w, b)}
             THEN AccountDone
             ELSE /\ cflight' = cflight \ {BaseItem(w, b)}
                  /\ UNCHANGED <<cpc, acct, cqueue, phase>>
  /\ UNCHANGED <<bases, data, delete_data, outer, bqueue, bpc, inner, tqueue,
                 tpc, pending, UNSCANNED_BASES, to_delete, calls, bases0, data0,
                 workspaces, queue, bases_pre, callvars>>

\* An INSERT issued by metadata.run is executed.  Nothing in the program
\* waits for it: it may run before or after metadata.run resolves and before
\* or after the statements of the connection base_data.run is given.  A
\* failed statement writes nothing and is not seen by metadata.run.
InsertSettles(stmt, ok) ==
  /\ stmt \in inserts
  /\ inserts' = inserts \ {stmt}
  /\ IF ~ok THEN UNCHANGED <<workspaces, bases, data>>
     ELSE IF stmt[1] = "ws"
     THEN /\ workspaces' = workspaces \cup {stmt[2]}
          /\ UNCHANGED <<bases, data>>
     ELSE /\ bases' = ReplaceBase(bases, stmt[3])
          /\ data' = Cascade(data, {stmt[3]})
          /\ workspaces' = workspaces
  /\ UNCHANGED <<delete_data, phase, outer, bqueue, bpc, inner, tqueue, tpc,
                 pending, UNSCANNED_BASES, to_delete, calls, bases0, data0,
                 cpc, acct, queue, cflight, cqueue, bases_pre, callvars>>

\* The store the entry point finds: empty (createTables has just created the
\* tables), or the rows an interrupted run of the script with the same scan
\* identifier left: bases 1..k marked with S, the others not yet scanned.
InitIndexBases ==
  {<<>>} \cup
  {[b \in CrawledBaseIds |-> BaseRow(IF b <= k THEN S ELSE NULL)] : k \in 0..NumCrawled}

\* With them, the records that run wrote for the first base.
InitIndexStore ==
  /\ bases \in InitIndexBases
  /\ \E rs \in SUBSET RecordIds :
       /\ rs # {} => 1 \in DOMAIN bases
       /\ data = [r \in rs |-> RecordRow(1, 1, r, S)]

\* The entry point: metadata.createTables(db); metadata.run(db), whose first
\* GET is in flight.
InitIndex ==
  /\ InitIndexStore
  /\ delete_data \in BOOLEAN
  /\ phase = "crawl"
  /\ cpc = "account"
  /\ acct = 1
  /\ InitIdle
  /\ InitNoCall

\* The INSERT statements metadata.run can issue.
CrawlStatements ==
  {WorkspaceItem(w) : w \in WorkspaceIds} \cup
  {BaseItem(w, b) : w \in WorkspaceIds, b \in CrawledBaseIds}

NextIndex ==
  \/ \E ok \in BOOLEAN, ws \in SUBSET WorkspaceIds : AccountSettles(ok, ws)
  \/ \E w \in WorkspaceIds, ok \in BOOLEAN, bs \in SUBSET CrawledBaseIds :
       WorkspaceSettles(w, ok, bs)
  \/ \E w \in WorkspaceIds, b \in CrawledBaseIds, ok \in BOOLEAN : DetailSettles(w, b, ok)
  \/ \E stmt \in CrawlStatements, ok \in BOOLEAN : InsertSettles(stmt, ok)
  \/ Next

SpecIndex == InitIndex /\ [][NextIndex]_vars

\* Every remote call and every statement eventually settles: as long as a
\* callback is outstanding, the event loop eventually runs one.
FairSpecIndex == SpecIndex /\ WF_vars(NextIndex)

\* ------------------------------------------ one remote call, requestWithRetry

\* What the remote side answers to one execution of an operation: a response,
\* an error with err.code 'ETIMEDOUT', or any other error.
Answers == {"ok", "timeout", "error"}

\* Call sites of base_data.js, which hand the promise of the call to
\* requestWithRetry, and call sites of metadata.js, which await it themselves.
Wrapped == {"grant", "tables", "fetch", "revoke"}
Direct == {"account", "workspace", "detail"}
CallSites == Wrapped \cup Direct

\* Mutant of RetryAllowed: the bound is tested with <=.
RetryAllowed_OneMore(err, count) == err = "timeout" /\ count <= MaxRetries

\* err.code === 'ETIMEDOUT' && retry_count < 5
RetryAllowed(err, count) == err = "timeout" /\ count < MaxRetries

\* await request, in requestWithRetry or at a call site of metadata.js, yields
\* the settlement of the promise.  requestWithRetry returns a response; on an
\* error it either starts the 10 s timer, retry_count += 1, or throws err.  A
\* call site of metadata.js has no catch.
Awaited(outcome) ==
  IF outcome = "ok"
  THEN rpc' = "resolved" /\ result' = outcome /\ retry_count' = retry_count
  ELSE IF site \in Wrapped /\ RetryAllowed(outcome, retry_count)
  THEN rpc' = "sleep" /\ result' = result /\ retry_count' = retry_count + 1
  ELSE rpc' = "rejected" /\ result' = outcome /\ retry_count' = retry_count

\* The operation, executed once when the call site evaluated admin.post(...),
\* admin.get(...), admin.delete(...) or base(t.name).select().all(), is
\* answered: the promise settles and its first await goes on.
RequestSettles ==
  /\ rpc = "await"
  /\ request = "pending"
  /\ request' = remote[1]
  /\ Awaited(remote[1])
  /\ UNCHANGED <<site, remote, attempts>>
  /\ UNCHANGED <<bases, data, delete_data, phase, outer, bqueue, bpc, inner,
                 tqueue, tpc, pending, UNSCANNED_BASES, to_delete, calls,
                 bases0, data0, crawlvars>>

\* setTimeout(..., 10000) fires: requestWithRetry(request, request_id,
\* retry_count) is invoked with the promise it was given, which is settled,
\* so its await goes on in the same turn; the outcome is passed on unchanged
\* through p.
TimerFires ==
  /\ rpc = "sleep"
  /\ attempts' = attempts + 1
  /\ Awaited(request)
  /\ UNCHANGED <<site, remote, request>>
  /\ UNCHANGED <<bases, data, delete_data, phase, outer, bqueue, bpc, inner,
                 tqueue, tpc, pending, UNSCANNED_BASES, to_delete, calls,
                 bases0, data0, crawlvars>>

\* One remote call of the program: the call site has executed the operation
\* and awaits its promise, the first attempt.
InitCall ==
  /\ site \in CallSites
  /\ remote \in [1..NumAnswers -> Answers]
  /\ request = "pending"
  /\ retry_count = 0
  /\ rpc = "await"
  /\ attempts = 1
  /\ result = "none"
  /\ bases = <<>>
  /\ data = <<>>
  /\ delete_data = FALSE
  /\ phase = "off"
  /\ cpc = "off"
  /\ acct = 0
  /\ InitIdle

NextCall ==
  \/ RequestSettles
  \/ TimerFires

SpecCall == InitCall /\ [][NextCall]_vars

\* ------------------------------------------------ the attachment download

\* Field types of a table as the metadata API reports them.
FieldTypes == {"singleLineText", "multipleAttachments"}

\* The field lists a table can have: up to NumFields fields.
TableFields == UNION {[1..n -> FieldTypes] : n \in 0..NumFields}

\* findAttachmentField(table): the fields of type multipleAttachments.
findAttachmentField(fields) ==
  SelectSeq(fields, LAMBDA f : f = "multipleAttachments")

\* The first statements of the table mapper of the attachment run, up to its
\* first await: a table with an attachment field issues
\* base(t.name).select().eachPage(...); for a table without one the mapper
\* evaluates the template literal of its log line, which reads table.id.  No
\* binding named table is in scope (the mapper's parameter is t), so the
\* read raises a ReferenceError and the mapper rejects before its return 0.
TableMapperStarts(fields) ==
  IF Len(findAttachmentField(fields)) = 0 THEN "threw_no_field" ELSE "fetch"

\* requestWithRetry(admin.get(`meta/bases/${base_id}/tables`)) settles in the
\* attachment run; on success with tables 1..n, whose fields are schema[t],
\* the directory of the base is created and the inner Promise.map calls the
\* first TableConcurrency mappers.  A mapper that rejects makes the map
\* reject: the catch pushes the base on UNSCANNED_BASES and the base's mapper
\* returns, while the requests of the other tables stay in flight.
AttachTablesSettles(b, res, n, schema) ==
  /\ UNCHANGED <<crawlvars, callvars>>
  /\ bpc[b] = "tables"
  /\ CASE res = "ok" ->
            LET k == Min(n, TableConcurrency)
                started == [t \in TableIds |->
                              IF t <= k THEN TableMapperStarts(schema[t])
                              ELSE IF t <= n THEN "queued" ELSE "none"]
                calls1 == IF \E t \in TableIds : started[t] = "fetch"
                          THEN calls \cup {<<"fetch", b>>} ELSE calls
            IN /\ tpc' = [tpc EXCEPT ![b] = started]
               /\ tqueue' = [tqueue EXCEPT ![b] = [i \in 1..(n - k) |-> k + i]]
               /\ IF \E t \in TableIds : started[t] = "threw_no_field"
                  THEN /\ inner' = [inner EXCEPT ![b] = "rejected"]
                       /\ MapperReturns(b, "ret_skipped", TRUE, calls1)
                  ELSE /\ inner' = [inner EXCEPT ![b] = "pending"]
                       /\ bpc' = [bpc EXCEPT ![b] = "fanout"]
                       /\ calls' = calls1
                       /\ UNCHANGED <<bqueue, outer, phase, UNSCANNED_BASES>>
       [] res = "forbidden" ->
            /\ MapperReturns(b, "ret_no_metadata", FALSE, calls)
            /\ UNCHANGED <<inner, tpc, tqueue>>
       [] OTHER ->
            /\ MapperThrows(b, "threw_tables")
            /\ UNCHANGED <<inner, tpc, tqueue>>
  /\ UNCHANGED <<bases, data, delete_data, pending, to_delete, bases0, data0>>

\* The promise of base(t.name).select().eachPage(page) settles: it resolves
\* when the page callback has downloaded the attachments of every page and
\* asked for the next one, and rejects when a page request fails.  (When a
\* download fails the page callback rejects without calling fetchNextPage
\* and the promise never settles: the table stays at its fetch.)
PageSettles(b, t, ok) ==
  /\ UNCHANGED <<crawlvars, callvars>>
  /\ tpc[b][t] = "fetch"
  /\ IF ok THEN TableReturns(b, t) ELSE TableThrows(b, t)
  /\ UNCHANGED <<bases, data, delete_data, pending, to_delete, bases0, data0>>

\* requestWithRetry(admin.delete(`meta/bases/${base_id}/collaborators/...`))
\* settles in the attachment run: a 403 is tolerated, and the mapper ends
\* with the try statement; there is no row to update.
AttachRevokeSettles(b, res) ==
  /\ UNCHANGED <<crawlvars, callvars>>
  /\ bpc[b] = "revoke"
  /\ IF res \in {"ok", "forbidden"}
     THEN MapperReturns(b, "ret_done", FALSE, calls)
     ELSE MapperThrows(b, "threw_revoke")
  /\ UNCHANGED <<bases, data, delete_data, inner, tqueue, tpc, pending,
                 to_delete, bases0, data0>>

\* The attachment script: run(bases) on the rows of listofbases.csv, bases
\* 1..k; Promise.map has called the first BaseConcurrency mappers, each of
\* which issued its grant request.  The script opens no database.
InitAttach ==
  /\ \E k \in 0..NumBases :
       LET m == Min(k, BaseConcurrency)
       IN /\ bases = [i \in 1..k |-> [id |-> i]]
          /\ bpc = [b \in BaseIds |->
                      IF b <= m THEN "grant" ELSE IF b <= k THEN "queued" ELSE "idle"]
          /\ bqueue = [i \in 1..(k - m) |-> m + i]
          /\ calls = {<<"grant", b>> : b \in 1..m}
          /\ outer = IF k = 0 THEN "resolved" ELSE "pending"
          /\ phase = IF k = 0 THEN "resolved" ELSE "scanning"
  /\ data = <<>>
  /\ delete_data = FALSE
  /\ inner = [b \in BaseIds |-> "none"]
  /\ tqueue = [b \in BaseIds |-> <<>>]
  /\ tpc = [b \in BaseIds |-> [t \in TableIds |-> "none"]]
  /\ pending = [b \in BaseIds |-> [t \in TableIds |-> {}]]
  /\ UNSCANNED_BASES = <<>>
  /\ to_delete = {}
  /\ bases0 = <<>>
  /\ data0 = <<>>
  /\ workspaces = {}
  /\ queue = <<>>
  /\ cflight = {}
  /\ cqueue = <<>>
  /\ inserts = {}
  /\ bases_pre = <<>>
  /\ cpc = "off"
  /\ acct = 0
  /\ InitNoCall

NextAttach ==
  \/ \E b \in BaseIds, res \in GrantResults : GrantSettles(b, res)
  \/ \E b \in BaseIds, res \in {"ok", "forbidden", "timeout", "error"}, n \in TableIds,
        schema \in [TableIds -> TableFields] :
       AttachTablesSettles(b, res, n, schema)
  \/ \E b \in BaseIds, t \in TableIds, ok \in BOOLEAN : PageSettles(b, t, ok)
  \/ \E b \in BaseIds, res \in RevokeResults : AttachRevokeSettles(b, res)

SpecAttach == InitAttach /\ [][NextAttach]_vars

\* ------------------------------------------------------------ properties

SkipList == Range(UNSCANNED_BASES)

DeletePhases == {"del_bases_select", "del_bases_delete", "del_data_select", "del_data_delete"}

\* The base row of b carries S and did not when the run selected its bases.
MarkedByRun(b) ==
  /\ b \in DOMAIN bases /\ bases[b].scan_id = S
  /\ b \in DOMAIN bases0 /\ bases0[b].scan_id # S

\* C1: a base whose scan_id this run set to S has no table that failed, no
\* table still being fetched and no record write pending: the inner
\* Promise.map resolved, every table's mapper returned and every INSERT of
\* every table called back.
C1_MarkedOnlyAfterAllTablesWritten ==
  \A b \in BaseIds :
    MarkedByRun(b) =>
      /\ inner[b] = "resolved"
      /\ tqueue[b] = <<>>
      /\ \E t \in TableIds : tpc[b][t] = "done"
      /\ \A t \in TableIds : tpc[b][t] \in {"done", "none"} /\ pending[b][t] = {}

\* A base with two tables is marked while another base is still being
\* scanned, a point at which the process may be interrupted.
C1_Witness ==
  \E b \in BaseIds, c \in BaseIds :
    /\ MarkedByRun(b)
    /\ \A t \in TableIds : tpc[b][t] = "done"
    /\ \E r \in DOMAIN data : data[r].base_id = b /\ data[r].scan_id = S
    /\ bpc[c] = "fanout"

\* C2: once the SELECT has called back, the bases given to Promise.map are
\* exactly those whose row did not carry S, and no remote call of any kind
\* is ever issued for a base whose row carried S.
C2_Resumption ==
  /\ outer # "none" =>
       {b \in BaseIds : bpc[b] # "idle"} = {b \in DOMAIN bases0 : bases0[b].scan_id # S}
  /\ \A b \in DOMAIN bases0 :
       bases0[b].scan_id = S =>
         /\ bpc[b] = "idle"
         /\ \A c \in calls : c[2] # b

\* Bases 1..k carried S, the run has scanned a base that did not, and ended.
C2_Witness ==
  /\ phase = "resolved"
  /\ \E b \in DOMAIN bases0 : bases0[b].scan_id = S
  /\ \E b \in BaseIds : bpc[b] = "ret_done" /\ <<"revoke", b>> \in calls

\* C4: a base on the skip list keeps the row the run found: its scan_id (and
\* scan_time) are those of before the run, never S; without the deletion
\* flag the row is still there.
C4_SkippedKeepsScanId ==
  \A b \in SkipList :
    /\ b \in DOMAIN bases => bases[b] = bases0[b] /\ bases[b].scan_id # S
    /\ ~delete_data => b \in DOMAIN bases

\* The run ended with a base skipped for a forbidden grant and a base skipped
\* for a failed table, one with an older tag and one never scanned.
C4_Witness ==
  /\ phase = "resolved"
  /\ \E b \in SkipList, c \in SkipList :
       /\ bpc[b] = "ret_forbidden" /\ bpc[c] = "ret_skipped"
       /\ b \in DOMAIN bases /\ c \in DOMAIN bases
       /\ {bases[b].scan_id, bases[c].scan_id} = {Old, NULL}

\* C5 as stated: after the run resolved, every base row not on the skip list
\* carries S and every record row under it carries S.
C5_Original ==
  phase = "resolved" =>
    \A b \in DOMAIN bases :
      b \notin SkipList =>
        /\ bases[b].scan_id = S
        /\ \A r \in DOMAIN data : data[r].base_id = b => data[r].scan_id = S

\* Bases whose mapper returned 0 without a skip-list entry: the grant was
\* answered not-found, or the table list was answered forbidden.
ReturnedUnscanned(b) == bpc[b] \in {"ret_not_found", "ret_no_metadata"}

\* C5 as amended: after the run resolved, every base row that is not on the
\* skip list, and whose scan did not return early on a not-found grant or a
\* forbidden table list, carries S; every record row under such a base
\* carries S or is a row this run did not write, unchanged since before it.
C5_Amended ==
  phase = "resolved" =>
    \A b \in DOMAIN bases :
      (b \notin SkipList /\ ~ReturnedUnscanned(b)) =>
        /\ bases[b].scan_id = S
        /\ \A r \in DOMAIN data :
             data[r].base_id = b =>
               \/ data[r].scan_id = S
               \/ r \in DOMAIN data0 /\ data[r] = data0[r]

\* The run ended without deletion: one base was scanned and marked, holds a
\* record it wrote, and another base was left unscanned and unlisted.
C5_Witness ==
  /\ phase = "resolved"
  /\ \E b \in DOMAIN bases, c \in DOMAIN bases :
       /\ bpc[b] = "ret_done" /\ bases[b].scan_id = S
       /\ \E r \in DOMAIN data : data[r].base_id = b /\ data[r].scan_id = S
       /\ ReturnedUnscanned(c) /\ c \notin SkipList

\* C6: after reconciliation every remaining base row carries S, every base
\* that carried S is still there, and no record row is left that is
\* associated with a removed base.
C6_ReconciliationRemoves ==
  (phase = "resolved" /\ delete_data) =>
    /\ \A b \in DOMAIN bases : bases[b].scan_id = S
    /\ \A b \in DOMAIN bases0 : bpc[b] \in {"idle", "ret_done"} => b \in DOMAIN bases
    /\ \A r \in DOMAIN data : data[r].base_id \in DOMAIN bases

\* C7: without the deletion flag no row leaves bases or data, deleteData is
\* never entered.
C7_NoDeletionWithoutFlag ==
  ~delete_data =>
    /\ DOMAIN bases0 \subseteq DOMAIN bases
    /\ DOMAIN data0 \subseteq DOMAIN data
    /\ phase \notin DeletePhases
    /\ to_delete = {}

\* The run ended without the flag while a base row and a record row carry a
\* tag other than S.
C7_Witness ==
  /\ phase = "resolved" /\ ~delete_data
  /\ \E b \in BaseIds : bpc[b] = "ret_done"
  /\ \E b \in DOMAIN bases : bases[b].scan_id # S
  /\ \E r \in DOMAIN data : data[r].scan_id # S

\* C8: deleteData runs only when deletion was requested, and while it runs
\* no base mapper is at work and no table has a fetch or a write in flight.
C8_ReconcileAfterScan ==
  phase \in DeletePhases =>
    /\ delete_data
    /\ \A b \in BaseIds : bpc[b] \notin ActiveBase
    /\ \A b \in BaseIds, t \in TableIds : ~TableInFlight(b, t)

\* C9: the base row of a base on the skip list, and the record rows stored
\* under it before the run, are still in the store.
C9_SkippedPreserved ==
  \A b \in SkipList :
    /\ b \in DOMAIN bases
    /\ \A r \in DOMAIN data0 : data0[r].base_id = b => r \in DOMAIN data

\* Positions of a base's mapper that rejected on the failure of a remote step.
RemoteThrew == {"threw_grant", "threw_tables", "threw_revoke"}

\* C10: no failure of a remote step of a base makes base_data.run reject or
\* leaves a selected base unscanned.
C10_FailuresContained ==
  \A b \in BaseIds :
    bpc[b] \in RemoteThrew => phase # "rejected" /\ bqueue = <<>>

\* C3: in a run of the entry point with scan identifier S, a base whose row
\* carried S when the script was started is ignored by the scan: its mapper
\* is never started, no remote call of the scan is issued for it, and its row
\* still holds the scan_id and scan_time it held.
C3_RestartIgnoresMarked ==
  \A b \in DOMAIN bases_pre :
    bases_pre[b].scan_id = S =>
      /\ bpc[b] = "idle"
      /\ \A c \in calls : c[2] # b
      /\ b \in DOMAIN bases => bases[b] = bases_pre[b]

\* C11: once a remote call of the crawl has failed, metadata.run has rejected
\* and the run is over: base_data.run is never called, so no base is selected,
\* no mapper started, no remote call of the scan issued, and deleteData never
\* runs: no row has left bases or data.
C11_CrawlFailureAborts ==
  cpc = "rejected" =>
    /\ phase = "rejected"
    /\ outer = "none"
    /\ \A b \in BaseIds : bpc[b] = "idle"
    /\ calls = {}
    /\ to_delete = {}
    /\ DOMAIN bases_pre \subseteq DOMAIN bases
    /\ data = data0

\* The detail fetch of one base failed while that of another was in flight;
\* the latter then succeeded and its INSERT OR REPLACE was executed.
C11_Witness ==
  /\ cpc = "rejected"
  /\ cflight = {}
  /\ inserts = {}
  /\ queue # <<>>
  /\ \E b \in DOMAIN bases : b \notin DOMAIN bases_pre

\* The await of a call site of base_data.js has ended.
RetrySettled == site \in Wrapped /\ rpc \in {"resolved", "rejected"}

\* C12 as stated: requestWithRetry makes at most 5 attempts; it rejects with
\* the timeout error after the 5th failed attempt.
C12_Original ==
  site \in Wrapped =>
    /\ attempts <= 5
    /\ (rpc = "rejected" /\ result = "timeout") => attempts = 5

\* C12 as amended: requestWithRetry makes at most 6 attempts, the first and
\* MaxRetries retries; it sleeps only after a timeout and with a retry left;
\* it rejects with the error it observed, after the 6th attempt when that is
\* a timeout and at once when it is any other error; it resolves with the
\* response.
C12_Amended ==
  site \in Wrapped =>
    /\ attempts <= MaxRetries + 1
    /\ rpc = "sleep" => request = "timeout" /\ attempts = retry_count
    /\ rpc # "sleep" => attempts = retry_count + 1
    /\ rpc = "rejected" =>
         /\ result = request
         /\ result = "timeout" => attempts = MaxRetries + 1
         /\ result = "error" => attempts = 1
    /\ rpc = "resolved" => result = "ok" /\ request = "ok"

\* requestWithRetry gave up on a timeout after all its retries.
C12_Witness ==
  /\ site \in Wrapped
  /\ rpc = "rejected"
  /\ result = "timeout"
  /\ retry_count = MaxRetries

\* C16: a timeout of a remote call is never propagated by its call site on
\* its first occurrence, whichever the call site.
C16_AllCallsRetried ==
  (rpc = "rejected" /\ result = "timeout") => attempts > 1

\* C17: when the first execution of an operation times out and the remote
\* side would answer the second one, requestWithRetry resolves with that
\* answer.
C17_RetryReexecutes ==
  (RetrySettled /\ remote[1] = "timeout" /\ remote[2] = "ok") =>
    (rpc = "resolved" /\ result = "ok")

\* The entry point ran to its end on a store that a complete run with the
\* same scan identifier had left, and upstream nothing had changed: every
\* base of the store carried S, the crawl found exactly these bases, every
\* remote call was answered as in the run before, and every record the scan
\* wrote is the row that was stored.
SecondRunOver ==
  /\ phase = "resolved" /\ cpc = "resolved"
  /\ inserts = {} /\ cflight = {}
  /\ DOMAIN bases_pre # {}
  /\ \A b \in DOMAIN bases_pre : bases_pre[b].scan_id = S
  /\ {q[2] : q \in Range(queue)} = DOMAIN bases_pre
  /\ \A b \in BaseIds : bpc[b] \in {"idle", "ret_done"}
  /\ \A b \in BaseIds, t \in TableIds : ~TableInFlight(b, t)
  /\ \A r \in DOMAIN data : r \in DOMAIN data0 /\ data[r] = data0[r]

\* C13: after such a second run the store is the store the first run left:
\* table bases as the script found it, and table data as it found it (the
\* crawl writes no record, so data0 is the table at the start of the script).
C13_Idempotent ==
  SecondRunOver => bases = bases_pre /\ data = data0

\* A table of base b failed: the inner Promise.map of b rejected.
TableFailed(b) == inner[b] = "rejected"

\* The base of a failed table is on the skip list and its row, where still
\* stored, is the row the run found, which does not carry S.
FailedBaseSkipped ==
  \A b \in BaseIds :
    TableFailed(b) =>
      /\ b \in SkipList
      /\ b \in DOMAIN bases => bases[b] = bases0[b] /\ bases[b].scan_id # S

\* The step in which a table fails writes and removes no record row.
FailureKeepsData ==
  (\E b \in BaseIds, t \in TableIds : tpc[b][t] # "failed" /\ tpc'[b][t] = "failed")
    => data' = data

\* A record row tagged S stays in the store and stays tagged S, whatever
\* fails afterwards; the one exception is a row that deleteData's SELECT had
\* listed before a write still in flight tagged it.
TaggedRowsKept ==
  \A r \in DOMAIN data :
    (data[r].scan_id = S /\ ~(phase = "del_data_delete" /\ r \in to_delete))
      => r \in DOMAIN data' /\ data'[r].scan_id = S

\* C14: when a table of a base fails, the base is put on the skip list and
\* keeps its old scan_id, and no record write made before is rolled back:
\* the rows written for sibling tables stay stored and tagged S.
C14_SiblingRecordsKept ==
  []FailedBaseSkipped /\ [][FailureKeepsData /\ TaggedRowsKept]_vars

\* The run ended after one table of a base failed and a sibling table had
\* all its records written: the base is on the skip list with its old row,
\* and a row this run wrote for the sibling table is stored with tag S.
C14_Witness ==
  /\ phase = "resolved"
  /\ \E b \in SkipList, t \in TableIds, u \in TableIds :
       /\ b \in DOMAIN bases
       /\ tpc[b][t] = "failed" /\ tpc[b][u] = "done"
       /\ \E r \in DOMAIN data :
            /\ data[r] = RecordRow(b, u, r, S)
            /\ r \notin DOMAIN data0 \/ data0[r] # data[r]

\* C15: the run of the entry point eventually ends, resolved or rejected, and
\* it never ends rejected with a base whose grant, table list or revoke
\* failed: such a failure is not what makes the run fail.
C15_RunTerminates ==
  /\ <>(phase \in {"resolved", "rejected"})
  /\ [](phase = "rejected" => \A b \in BaseIds : bpc[b] \notin RemoteThrew)

\* The kinds of remote call base_data.run issued for base b.
CallsFor(b) == {c[1] : c \in {d \in calls : d[2] = b}}

\* How often x is on the list q.
Occurrences(q, x) == Cardinality({i \in 1..Len(q) : q[i] = x})

\* The table fan-out of base b was never started.
NoTableStarted(b) ==
  /\ inner[b] = "none"
  /\ \A t \in TableIds : tpc[b][t] = "none" /\ pending[b][t] = {}

\* Every record row stored under base b is a row the run found there.
NoRecordWritten(b) ==
  \A r \in DOMAIN data : data[r].base_id = b => r \in DOMAIN data0 /\ data[r] = data0[r]

\* The row of base b, where still stored, is the row the run found.
RowAsFound(b) == b \in DOMAIN bases => bases[b] = bases0[b]

\* C18: a base whose grant was answered not-found has had its mapper return
\* after that one call: no table list, fetch or revoke was issued for it, no
\* table started, no record written under it, it is not on the skip list and
\* its row is as the run found it.
C18_GrantNotFound ==
  \A b \in BaseIds :
    bpc[b] = "ret_not_found" =>
      /\ CallsFor(b) = {"grant"}
      /\ NoTableStarted(b)
      /\ NoRecordWritten(b)
      /\ b \notin SkipList
      /\ RowAsFound(b)

\* The run ended with deletion: the grant of one base was answered not-found
\* and reconciliation removed its row, another base was scanned and marked.
C18_Witness ==
  /\ phase = "resolved" /\ delete_data
  /\ \E b \in BaseIds, c \in BaseIds :
       /\ bpc[b] = "ret_not_found" /\ b \notin DOMAIN bases
       /\ bpc[c] = "ret_done" /\ c \in DOMAIN bases

\* C19: a base whose grant was answered forbidden is on the skip list exactly
\* once, its mapper returned after that one call, no table was started, no
\* record written under it, and its row is as the run found it, without S.
C19_GrantForbidden ==
  \A b \in BaseIds :
    bpc[b] = "ret_forbidden" =>
      /\ Occurrences(UNSCANNED_BASES, b) = 1
      /\ CallsFor(b) = {"grant"}
      /\ NoTableStarted(b)
      /\ NoRecordWritten(b)
      /\ RowAsFound(b)
      /\ b \in DOMAIN bases => bases[b].scan_id # S

\* The run ended without deletion: the grants of two bases were answered
\* forbidden, both are on the skip list with their rows, a third was scanned.
C19_Witness ==
  /\ phase = "resolved" /\ ~delete_data
  /\ Len(UNSCANNED_BASES) = 2
  /\ \A b \in SkipList : bpc[b] = "ret_forbidden" /\ b \in DOMAIN bases
  /\ \E c \in BaseIds : bpc[c] = "ret_done"

\* C20: a base whose table list was answered forbidden has had its mapper
\* return after the grant and the table list: it is not on the skip list, no
\* table was started, no record written under it, and its row is as the run
\* found it, so that the SELECT of a later run returns it; without the
\* deletion flag the row is still stored.
C20_TableListForbidden ==
  \A b \in BaseIds :
    bpc[b] = "ret_no_metadata" =>
      /\ b \notin SkipList
      /\ CallsFor(b) = {"grant", "tables"}
      /\ NoTableStarted(b)
      /\ NoRecordWritten(b)
      /\ RowAsFound(b)
      /\ b \in DOMAIN bases => b \in Selected(bases, S)
      /\ ~delete_data => b \in DOMAIN bases

\* The run ended without deletion and with an empty skip list: the table
\* list of a base that carried an older tag was answered forbidden.
C20_Witness ==
  /\ phase = "resolved" /\ ~delete_data
  /\ UNSCANNED_BASES = <<>>
  /\ \E b \in DOMAIN bases : bpc[b] = "ret_no_metadata" /\ bases[b].scan_id = Old

\* A base whose revoke was answered 403 is not on the skip list while its
\* UPDATE is in flight; a base whose revoke failed otherwise has made the
\* outer Promise.map, and so the run, reject, and its row is the row the run
\* found, without S.
RevokeOutcomes ==
  \A b \in BaseIds :
    /\ bpc[b] = "update_warned" => b \notin SkipList /\ inner[b] = "resolved"
    /\ bpc[b] = "threw_revoke" =>
         /\ outer = "rejected"
         /\ b \in DOMAIN bases /\ bases[b] = bases0[b] /\ bases[b].scan_id # S

\* The UPDATE issued after a tolerated 403 sets scan_id and scan_time of the
\* base to those of the run and leaves the base off the skip list; only a
\* failure of the UPDATE itself prevents it.
WarnedBaseMarked ==
  \A b \in BaseIds :
    (bpc[b] = "update_warned" /\ bpc'[b] # "update_warned") =>
      \/ /\ bpc'[b] = "ret_done"
         /\ b \notin Range(UNSCANNED_BASES')
         /\ b \in DOMAIN bases' => bases'[b] = [scan_id |-> S, scan_time |-> Now]
      \/ bpc'[b] = "threw_update"

\* C21: a 403 answer to the revoke is tolerated, the base is marked with the
\* scan_id and scan_time of the run and not put on the skip list; any other
\* failure of the revoke rejects the run and leaves the base's row as it was.
C21_RevokeForbiddenTolerated ==
  []RevokeOutcomes /\ [][WarnedBaseMarked]_vars

\* The revoke of a base, all of whose tables were written, was answered 403
\* and its UPDATE is in flight, while the revoke of another base failed.
C21_Witness ==
  \E b \in BaseIds, c \in BaseIds :
    /\ bpc[b] = "update_warned"
    /\ \A t \in TableIds : tpc[b][t] = "done"
    /\ \E r \in DOMAIN data : data[r] = RecordRow(b, 1, r, S)
    /\ bpc[c] = "threw_revoke"

\* The entry point called base_data.run, whose SELECT has called back with
\* its rows: the outer Promise.map has been created.
SelectExecuted == cpc = "resolved" /\ outer # "none"

\* C22: when base_data.run's SELECT is executed, the rows the crawl found are
\* in the store: no INSERT of a base row is still pending for a base that the
\* table the SELECT read did not hold.
C22_CrawlWrittenBeforeSelect ==
  SelectExecuted =>
    \A w \in WorkspaceIds, b \in CrawledBaseIds :
      BaseItem(w, b) \in inserts => b \in DOMAIN bases0

\* Base b has scan work in flight: its grant, table list or revoke request,
\* or the fetch or the record writes of one of its tables.
WorkInFlight(b) ==
  \/ bpc[b] \in {"grant", "tables", "revoke"}
  \/ \E t \in TableIds : TableInFlight(b, t)

\* C23: at most BaseConcurrency bases have scan work in flight, and at most
\* TableConcurrency tables of one base are being fetched or written.
C23_ConcurrencyBounds ==
  /\ Cardinality({b \in BaseIds : WorkInFlight(b)}) <= BaseConcurrency
  /\ \A b \in BaseIds :
       Cardinality({t \in TableIds : TableInFlight(b, t)}) <= TableConcurrency

\* The row of record r was created or changed since the run started.
WrittenByRun(r) ==
  r \in DOMAIN data /\ (r \notin DOMAIN data0 \/ data[r] # data0[r])

\* C24: a row written by the run holds, under the record's identifier, the
\* serialized fields in column data, the creation timestamp in column
\* created_time, a base and a table identifier, and the scan identifier S.
C24_RecordRowColumns ==
  \A r \in RecordIds :
    WrittenByRun(r) =>
      \E b \in BaseIds, t \in TableIds :
        data[r] = [base_id |-> b, table_id |-> t,
                   data |-> Stringify(Fields(r)),
                   created_time |-> CreatedTime(r),
                   scan_id |-> S]

\* The grant of base b succeeded: the mapper went on to ask for the table
\* list, which is the statement after the grant's try block.
GrantSucceeded(b) == <<"tables", b>> \in calls

\* The mapper of base b has returned or thrown: it issues no further call.
MapperSettled(b) == bpc[b] \notin ActiveBase \cup {"idle", "queued"}

\* C25: once the mapper of a base whose grant succeeded has settled, on
\* whichever path, the revoke of that base has been issued.
C25_GrantRevoked ==
  \A b \in BaseIds :
    GrantSucceeded(b) /\ MapperSettled(b) => <<"revoke", b>> \in calls

\* No step replaces a stored row by a row of another base or table: a row
\* stored before and after the step under record identifier r belongs to the
\* same base and table.
OtherIdentityKept ==
  \A r \in DOMAIN data \cap DOMAIN data' :
    data'[r].base_id = data[r].base_id /\ data'[r].table_id = data[r].table_id

\* C26: a record write replaces only the row with the same base, table and
\* record identifier.
C26_CompositeIdentity == [][OtherIdentityKept]_vars

\* The mapper of table t of base b found no attachment field: it took the
\* branch attachment_fields.length === 0 and left by its return or by an
\* exception.
NoFieldTable(b, t) == tpc[b][t] \in {"ret_no_field", "threw_no_field"}

\* C27: in the attachment run a table without an attachment field returns 0:
\* its mapper does not reject, and its base is on the skip list only if the
\* request of another of its tables failed.
C27_NoAttachmentField ==
  \A b \in BaseIds, t \in TableIds :
    NoFieldTable(b, t) =>
      /\ tpc[b][t] = "ret_no_field"
      /\ b \in SkipList => \E u \in TableIds : tpc[b][u] = "failed"

====
